---- MODULE Spec2Model ----
(***************************************************************************)
(* Model of the thread-attribute extraction lambda                         *)
(* (acs-lambda/get-thread-attrs): the record-store client (db.py), the     *)
(* rate limiter built on it, the model client (llm_interface.py) and the   *)
(* two orchestrations (lambda_function.lambda_handler and                  *)
(* thread_logic.get_attributes_for_thread).                                *)
(*                                                                         *)
(* The record store (DynamoDB) and the model HTTP endpoint are the         *)
(* environment: every store call and the HTTP call take their outcome      *)
(* (success, failure, what came back) as a nondeterministic input.         *)
(*                                                                         *)
(* Three specifications share the variables: SpecRL (concurrent            *)
(* check_rate_limit calls), Spec (orchestrated requests) and SpecFn (the   *)
(* sort and projection of the email chain, the transcript and the reply    *)
(* parser, each over a bounded set of inputs).                             *)
(***************************************************************************)
EXTENDS Integers, Sequences, FiniteSets, TLC

(***************************************************************************)
(* Bounds of the model.                                                    *)
(***************************************************************************)
MaxCalls == 4
\* total number of check_rate_limit calls started in a behaviour (SpecRL)

MaxTime == 130
\* the clock stops advancing past this many seconds

TickStep == 40
\* seconds the clock advances in one Tick

(***************************************************************************)
(* Program constants.                                                      *)
(***************************************************************************)
TTL_SECONDS == 60
\* db.py:291  ttl = int(time.time()) + 60

NoTtl == -1
\* marks a counter record that carries no ttl attribute

Procs == {"p1", "p2"}
\* concurrent lambda instances, each running check_rate_limit calls

Accounts == {"a1", "a2"}

Cats == {"AWS", "AI"}
\* the two fixed limit categories (thread_logic.py:28-29)

(***************************************************************************)
(* Users table: a1 has a record with both ceilings, a2 has no record.      *)
(***************************************************************************)
UsersTable ==
  [a \in Accounts |->
     IF a = "a1" THEN [present |-> TRUE, rl_aws |-> 1, rl_ai |-> 2]
                 ELSE [present |-> FALSE, rl_aws |-> 0, rl_ai |-> 0]]

Convs == {"c1", "c2", "c3", "c4", "c5"}
\* conversation ids a request can carry

None == "None"
\* Python's None (an absent account id, an absent field)

\* Python truthiness of an optional string: None and '' are falsy
Truthy(x) == x # None /\ x # ""

(***************************************************************************)
(* Threads table: c1 and c2 belong to account a1, c5 to a2; c3 has no      *)
(* item; the item of c4 lacks the associated_account field.                *)
(***************************************************************************)
ThreadsTable ==
  [c \in Convs |->
     CASE c = "c1" -> [present |-> TRUE,  associated_account |-> "a1"]
       [] c = "c2" -> [present |-> TRUE,  associated_account |-> "a1"]
       [] c = "c3" -> [present |-> FALSE, associated_account |-> None]
       [] c = "c4" -> [present |-> TRUE,  associated_account |-> None]
       [] OTHER    -> [present |-> TRUE,  associated_account |-> "a2"]]

(***************************************************************************)
(* Conversations table, in the order the query returns the items.  An      *)
(* item is a function from the fields it has to their values; a timestamp  *)
(* is a string of digits, written as the sequence of its digits.           *)
(***************************************************************************)
ConversationsTable ==
  [c \in Convs |->
     CASE c = "c1" ->
            << [subject |-> "s2", body |-> "b2", sender |-> "u1",
                timestamp |-> <<2, 0>>, type |-> "email"],
               [subject |-> "s1", body |-> "b1", sender |-> "u2",
                timestamp |-> <<1, 5>>, type |-> "email"] >>
       [] c = "c2" ->
            << [subject |-> "s3", body |-> "b3", sender |-> "u1",
                timestamp |-> <<3>>, type |-> "email"] >>
       [] c = "c3" ->
            << [body |-> "b4", sender |-> "u3"] >>
       [] OTHER -> << >>]

Fields == {"subject", "body", "sender", "timestamp", "type"}

\* item.get(field, '') ; the empty timestamp string is the empty sequence
item_get(item, field) ==
  IF field \in DOMAIN item THEN item[field]
  ELSE IF field = "timestamp" THEN << >> ELSE ""

\* Python's str <= str on digit strings: lexicographic, a prefix is smaller
RECURSIVE str_le(_, _)
str_le(x, y) ==
  IF x = << >> THEN TRUE
  ELSE IF y = << >> THEN FALSE
  ELSE IF Head(x) < Head(y) THEN TRUE
  ELSE IF Head(x) > Head(y) THEN FALSE
  ELSE str_le(Tail(x), Tail(y))

\* a variant that puts item before the elements of an equal key
RECURSIVE insert_sorted_before_equal(_, _)
insert_sorted_before_equal(sorted_items, item) ==
  IF sorted_items = << >> THEN <<item>>
  ELSE IF str_le(item_get(item, "timestamp"),
                 item_get(Head(sorted_items), "timestamp"))
       THEN <<item>> \o sorted_items
       ELSE <<Head(sorted_items)>>
            \o insert_sorted_before_equal(Tail(sorted_items), item)

\* insert item after every element whose key is <= its own (stable)
RECURSIVE insert_sorted(_, _)
insert_sorted(sorted_items, item) ==
  IF sorted_items = << >> THEN <<item>>
  ELSE IF str_le(item_get(Head(sorted_items), "timestamp"),
                 item_get(item, "timestamp"))
       THEN <<Head(sorted_items)>> \o insert_sorted(Tail(sorted_items), item)
       ELSE <<item>> \o sorted_items

\* db.py:43  sorted(items, key=lambda x: x.get('timestamp', ''))
RECURSIVE sorted_by_timestamp(_)
sorted_by_timestamp(items) ==
  IF items = << >> THEN << >>
  ELSE insert_sorted(sorted_by_timestamp(SubSeq(items, 1, Len(items) - 1)),
                     items[Len(items)])

\* db.py:48-54  the fixed record shape, missing fields defaulted to ''
formatted_item(item) == [f \in Fields |-> item_get(item, f)]

\* db.py:39-68  what get_email_chain makes of the items the query returned
formatted_chain(items) ==
  LET sorted_items == sorted_by_timestamp(items)
  IN [i \in 1..Len(sorted_items) |-> formatted_item(sorted_items[i])]

\* db.py:15-76  get_email_chain: [] on any query failure
get_email_chain(conversation_id, fail) ==
  IF fail THEN << >>
  ELSE formatted_chain(ConversationsTable[conversation_id])

\* db.py:173-220  get_thread_account_id: None when the thread is missing,
\* lacks the field, or the read fails
get_thread_account_id(conversation_id, fail) ==
  IF fail THEN None
  ELSE IF ~ThreadsTable[conversation_id].present THEN None
  ELSE IF ~Truthy(ThreadsTable[conversation_id].associated_account) THEN None
  ELSE ThreadsTable[conversation_id].associated_account

\* a variant that puts the blank line between the records only
RECURSIVE format_conversation_joined(_)
format_conversation_joined(email_chain) ==
  IF email_chain = << >> THEN << >>
  ELSE <<"Subject: ", item_get(Head(email_chain), "subject"), "\n",
         "Body: ", item_get(Head(email_chain), "body")>>
       \o (IF Tail(email_chain) = << >> THEN <<"\n">> ELSE <<"\n\n">>)
       \o format_conversation_joined(Tail(email_chain))

\* utils.py:3-10 (and thread_logic.py:7-15)  the transcript, as the sequence
\* of the pieces the f-strings append
RECURSIVE format_conversation_for_llm(_)
format_conversation_for_llm(email_chain) ==
  IF email_chain = << >> THEN << >>
  ELSE <<"Subject: ", item_get(Head(email_chain), "subject"), "\n",
         "Body: ", item_get(Head(email_chain), "body"), "\n\n">>
       \o format_conversation_for_llm(Tail(email_chain))

(***************************************************************************)
(* The model reply.  A reply text is the sequence of its characters; "NL"  *)
(* is the newline.                                                         *)
(***************************************************************************)
index_of(s, ch) ==
  IF \E i \in 1..Len(s) : s[i] = ch
  THEN CHOOSE i \in 1..Len(s) : s[i] = ch /\ \A j \in 1..(i - 1) : s[j] # ch
  ELSE 0

\* content.split('\n')
RECURSIVE split_lines(_)
split_lines(s) ==
  LET i == index_of(s, "NL") IN
  IF i = 0 THEN <<s>>
  ELSE <<SubSeq(s, 1, i - 1)>> \o split_lines(SubSeq(s, i + 1, Len(s)))

RECURSIVE lstrip(_)
lstrip(s) == IF s # << >> /\ Head(s) = " " THEN lstrip(Tail(s)) ELSE s

RECURSIVE rstrip(_)
rstrip(s) ==
  IF s # << >> /\ s[Len(s)] = " " THEN rstrip(SubSeq(s, 1, Len(s) - 1)) ELSE s

\* str.strip()
strip(s) == rstrip(lstrip(s))

EmptyMap == [k \in {} |-> << >>]

\* attributes[key] = value
map_put(m, k, v) == [x \in DOMAIN m \cup {k} |-> IF x = k THEN v ELSE m[x]]

\* a variant that splits a line on its last colon
parse_line_rsplit(attributes, line) ==
  LET at == {i \in 1..Len(line) : line[i] = ":"}
      i == IF at = {} THEN 0 ELSE CHOOSE c \in at : \A j \in at : j <= c
  IN IF i = 0 THEN attributes
     ELSE map_put(attributes, strip(SubSeq(line, 1, i - 1)),
                              strip(SubSeq(line, i + 1, Len(line))))

\* llm_interface.py:118-120  one line of the reply
parse_line(attributes, line) ==
  LET i == index_of(line, ":") IN
  IF i = 0 THEN attributes
  ELSE map_put(attributes, strip(SubSeq(line, 1, i - 1)),
                           strip(SubSeq(line, i + 1, Len(line))))

RECURSIVE parse_lines(_, _)
parse_lines(attributes, lines) ==
  IF lines = << >> THEN attributes
  ELSE parse_lines(parse_line(attributes, Head(lines)), Tail(lines))

\* llm_interface.py:115-120  the attribute map of a reply text
parse_attributes(content) == parse_lines(EmptyMap, split_lines(content))

(***************************************************************************)
(* What the model endpoint can answer.  net = FALSE: http.request itself   *)
(* raised.  body: "undecodable" (not UTF-8), "notjson", "null" (JSON that  *)
(* is no object), "nochoices" (an object without "choices"), "object" (an  *)
(* object with "choices").  An object carries its choices, each the        *)
(* content of its message, and its usage section.                          *)
(***************************************************************************)
ReplyContents ==
  { << >>,
    <<"a", ":", " ", "x">>,
    <<"a", ":", " ", "x", "NL", "n", "o", "NL", "b", " ", ":", "y", ":", "z">>,
    <<"a", ":", "x", "NL", "a", ":", "w">> }

UsageKinds ==
  { [kind |-> "absent", has_prompt |-> FALSE, prompt_tokens |-> 0,
     has_completion |-> FALSE, completion_tokens |-> 0],
    [kind |-> "null", has_prompt |-> FALSE, prompt_tokens |-> 0,
     has_completion |-> FALSE, completion_tokens |-> 0],
    [kind |-> "dict", has_prompt |-> TRUE, prompt_tokens |-> 3,
     has_completion |-> TRUE, completion_tokens |-> 2],
    [kind |-> "dict", has_prompt |-> TRUE, prompt_tokens |-> 3,
     has_completion |-> FALSE, completion_tokens |-> 0] }

NoUsage ==
  [kind |-> "absent", has_prompt |-> FALSE, prompt_tokens |-> 0,
   has_completion |-> FALSE, completion_tokens |-> 0]

Responses ==
  { [net |-> FALSE, status |-> 0, body |-> "none", choices |-> << >>, usage |-> NoUsage] }
  \cup
  { [net |-> TRUE, status |-> st, body |-> b, choices |-> << >>, usage |-> NoUsage] :
      st \in {200, 500}, b \in {"undecodable", "notjson", "null", "nochoices"} }
  \cup
  { [net |-> TRUE, status |-> 500, body |-> "object", choices |-> << >>, usage |-> NoUsage] }
  \cup
  { [net |-> TRUE, status |-> 200, body |-> "object", choices |-> ch, usage |-> u] :
      ch \in { << >> } \cup { <<c>> : c \in ReplyContents }, u \in UsageKinds }

\* usage.get("prompt_tokens", 0)
usage_prompt_tokens(usage) ==
  IF usage.kind = "dict" /\ usage.has_prompt THEN usage.prompt_tokens ELSE 0

\* usage.get("completion_tokens", 0)
usage_completion_tokens(usage) ==
  IF usage.kind = "dict" /\ usage.has_completion THEN usage.completion_tokens ELSE 0

ModelName == "meta-llama/Llama-3.3-70B-Instruct-Turbo-Free"

NoRecord ==
  [id |-> 0, associated_account |-> None, input_tokens |-> 0,
   output_tokens |-> 0, total_tokens |-> 0, llm_email_type |-> "",
   model_name |-> "", conversation_id |-> None]

\* a variant that keys the record by its account and sums nothing
invocation_item_per_account(id, associated_account, input_tokens, output_tokens, llm_email_type, model_name, conversation_id) ==
  [id |-> associated_account,
   associated_account |-> associated_account,
   input_tokens |-> input_tokens,
   output_tokens |-> output_tokens,
   total_tokens |-> input_tokens,
   llm_email_type |-> llm_email_type,
   model_name |-> model_name,
   conversation_id |-> conversation_id]

\* db.py:113-128  the item store_llm_invocation builds; id is the fresh uuid
invocation_item(id, associated_account, input_tokens, output_tokens, llm_email_type, model_name, conversation_id) ==
  [id |-> id,
   associated_account |-> associated_account,
   input_tokens |-> input_tokens,
   output_tokens |-> output_tokens,
   total_tokens |-> input_tokens + output_tokens,
   llm_email_type |-> llm_email_type,
   model_name |-> model_name,
   conversation_id |-> conversation_id]

\* what a failing call leaves behind: the exception class as the callers'
\* except clauses tell them apart (ValueError or any other Exception)
raised_result(exc, attempted, written, item) ==
  [raised |-> exc, attributes |-> EmptyMap, posts |-> 1,
   store_attempted |-> attempted, stored |-> written, record |-> item]

\* a variant in which a failed store write fails the call
store_outcome_raising(store_fail, attributes, item) ==
  IF store_fail THEN raised_result("Exception", TRUE, FALSE, NoRecord)
  ELSE [raised |-> "None", attributes |-> attributes, posts |-> 1,
        store_attempted |-> TRUE, stored |-> TRUE, record |-> item]

\* llm_interface.py:102-112 with db.py:135-171  store_llm_invocation returns
\* False on a failed put_item and the call goes on to parse the reply
store_outcome(store_fail, attributes, item) ==
  [raised |-> "None", attributes |-> attributes, posts |-> 1,
   store_attempted |-> TRUE, stored |-> ~store_fail,
   record |-> IF store_fail THEN NoRecord ELSE item]

\* a variant that goes on whatever the HTTP status
status_rejected_never(resp) == FALSE

\* llm_interface.py:76  if response.status != 200: ... raise
status_rejected(resp) == resp.status # 200

\* llm_interface.py:82  if "choices" not in response_data: ... raise
choices_missing(resp) == resp.body = "nochoices"

\* a variant that stores the record whether or not an account id is known
should_store_always(account_id) == TRUE

\* llm_interface.py:102  if account_id:
should_store(account_id) == Truthy(account_id)

(***************************************************************************)
(* llm_interface.get_thread_attributes (lines 16-142): one POST, the shape *)
(* checks, the usage record, the parse.  resp is the endpoint's answer,    *)
(* store_fail whether put_item fails, id the uuid drawn for the record.    *)
(***************************************************************************)
get_thread_attributes(conversation_text, account_id, conversation_id, resp, store_fail, id) ==
  IF ~resp.net THEN raised_result("Exception", FALSE, FALSE, NoRecord)
  \* line 78 and 81 decode the body: UnicodeDecodeError is a ValueError
  ELSE IF resp.body = "undecodable"
    THEN raised_result("ValueError", FALSE, FALSE, NoRecord)
  ELSE IF status_rejected(resp)
    THEN raised_result("Exception", FALSE, FALSE, NoRecord)
  \* line 81 json.loads: JSONDecodeError is a ValueError
  ELSE IF resp.body = "notjson"
    THEN raised_result("ValueError", FALSE, FALSE, NoRecord)
  \* line 82 '"choices" not in None': TypeError
  ELSE IF resp.body = "null"
    THEN raised_result("Exception", FALSE, FALSE, NoRecord)
  ELSE IF choices_missing(resp)
    THEN raised_result("Exception", FALSE, FALSE, NoRecord)
  \* line 88 usage.get on None: AttributeError
  ELSE IF resp.usage.kind = "null"
    THEN raised_result("Exception", FALSE, FALSE, NoRecord)
  ELSE
    LET input_tokens == usage_prompt_tokens(resp.usage)
        output_tokens == usage_completion_tokens(resp.usage)
        item == invocation_item(id, account_id, input_tokens, output_tokens,
                                "thread_attributes", ModelName, conversation_id)
        \* line 115 choices[0]: IndexError on an empty list, after the store
        parsed == IF resp.body # "object" \/ resp.choices = << >>
                  THEN [raised |-> "Exception", attributes |-> EmptyMap]
                  ELSE [raised |-> "None",
                        attributes |-> parse_attributes(resp.choices[1])]
        stored == IF should_store(account_id)
                  THEN store_outcome(store_fail, parsed.attributes, item)
                  ELSE [raised |-> "None", attributes |-> parsed.attributes,
                        posts |-> 1, store_attempted |-> FALSE,
                        stored |-> FALSE, record |-> NoRecord]
    IN IF stored.raised # "None" THEN stored
       ELSE IF parsed.raised # "None"
         THEN raised_result(parsed.raised, stored.store_attempted,
                            stored.stored, stored.record)
       ELSE stored

NoCounter == [present |-> FALSE, invocations |-> 0, ttl |-> NoTtl]
\* an absent item of a per-category counter table

VARIABLES
  rl,           \* counter tables: rl[cat][account] is the item (or NoCounter)
  now,          \* the clock, epoch seconds
  pc,           \* pc[p]: where process p stands inside check_rate_limit
  loc,          \* loc[p]: the locals of p's current check_rate_limit call
  win,          \* history: per key, the current TTL window's bookkeeping
  hist,         \* history: per process, facts recorded about its last call
  ncalls,       \* history: number of calls started so far
  invocations,  \* Invocations table: the set of items written
  nextId,       \* the next fresh uuid
  req,          \* the orchestrated request in progress and its locals
  out,          \* what the last finished request returned or raised
  trace,        \* history: the steps the current request has performed
  nreq,         \* history: number of requests started so far
  fn,           \* SpecFn: the function the behaviour studies
  fpc,          \* SpecFn: where that function stands
  query_items,  \* SpecFn: the items the Conversations query returned
  chain,        \* SpecFn: the email chain (what get_email_chain returned)
  formatted_text, \* SpecFn: the transcript built from the email chain
  reply_content,  \* SpecFn: the text of the model reply (content)
  pending_lines,  \* SpecFn: the lines of content the loop has yet to visit
  attribute_map   \* SpecFn: the attribute map built so far (attributes)

rlProcVars == <<pc, loc, win, hist, ncalls>>

orchVars == <<invocations, nextId, req, out, trace, nreq>>

fnVars == <<fn, fpc, query_items, chain, formatted_text,
          reply_content, pending_lines, attribute_map>>

vars == <<rl, now, pc, loc, win, hist, ncalls,
          invocations, nextId, req, out, trace, nreq,
          fn, fpc, query_items, chain, formatted_text,
          reply_content, pending_lines, attribute_map>>

\* a variant that gives an account without a record a ceiling of its own
get_user_rate_limits_lenient(account_id, fail) ==
  IF fail THEN [rl_aws |-> 0, rl_ai |-> 0]
  ELSE IF ~UsersTable[account_id].present THEN [rl_aws |-> 2, rl_ai |-> 2]
  ELSE [rl_aws |-> UsersTable[account_id].rl_aws,
        rl_ai  |-> UsersTable[account_id].rl_ai]

(***************************************************************************)
(* db.get_user_rate_limits: the account's ceilings; zeros when the record  *)
(* is missing (line 246-248) and zeros when the read fails (259-265).      *)
(***************************************************************************)
get_user_rate_limits(account_id, fail) ==
  IF fail THEN [rl_aws |-> 0, rl_ai |-> 0]
  ELSE IF ~UsersTable[account_id].present THEN [rl_aws |-> 0, rl_ai |-> 0]
  ELSE [rl_aws |-> UsersTable[account_id].rl_aws,
        rl_ai  |-> UsersTable[account_id].rl_ai]

\* db.py:345  limit = rate_limits[f'rl_{limit_type.lower()}']
limit_of(rate_limits, limit_type) ==
  IF limit_type = "AWS" THEN rate_limits.rl_aws ELSE rate_limits.rl_ai

\* a lost-update variant: the new value is computed from the count the
\* caller read earlier instead of from the stored item
updated_invocations_from_read(item, current_count) == current_count + 1

\* db.py:295/302  SET invocations = if_not_exists(invocations, :zero) + :inc
\* evaluated by the store on the stored item, atomically
updated_invocations(item, current_count) ==
  (IF item.present THEN item.invocations ELSE 0) + 1

\* a variant that stops counting once the count it read is above one
update_item_until_exceeded(item, item_exists, current_count, ttl) ==
  [present     |-> TRUE,
   invocations |-> IF current_count > 1 THEN current_count
                   ELSE updated_invocations(item, current_count),
   ttl         |-> IF item_exists THEN item.ttl ELSE ttl]

\* db.py:294-318  the item after update_item: the ttl is written only by the
\* expression chosen when the caller's get_item saw no item
update_item(item, item_exists, current_count, ttl) ==
  [present     |-> TRUE,
   invocations |-> updated_invocations(item, current_count),
   ttl         |-> IF item_exists THEN item.ttl ELSE ttl]

is_exceeded_ge(current_count, limit) == current_count >= limit

\* db.py:351  is_exceeded = current_count > limit
is_exceeded(current_count, limit) == current_count > limit

(***************************************************************************)
(* SpecRL: concurrent check_rate_limit calls against the counter tables.   *)
(***************************************************************************)
NoLoc ==
  [account |-> "a1", cat |-> "AWS", limit |-> 0, item_exists |-> FALSE,
   current_count |-> 0, ttl |-> 0, new_count |-> 0,
   result |-> [exceeded |-> FALSE, count |-> 0, limit |-> 0]]

NoWin == [epoch |-> 0, attempts |-> 0, succ |-> 0, dirty |-> FALSE]

NoHist == [ord |-> 0, succOrd |-> 0, epoch |-> 0, failed |-> FALSE,
           clean |-> FALSE, updated |-> FALSE]

NoReq ==
  [kind |-> "none", pc |-> "idle", conversation_id |-> None,
   account_id |-> None, email_chain |-> << >>, fetch_fail |-> FALSE,
   resp |-> [net |-> FALSE, status |-> 0, body |-> "none",
             choices |-> << >>, usage |-> NoUsage],
   store_fail |-> FALSE, raised |-> "None", before |-> {}]

NoOut ==
  [status |-> 0, errorType |-> "", message |-> "", attributes |-> EmptyMap,
   accountId |-> None, emailCount |-> 0]

\* the store, the callers and the requests before anything has run
InitProgram ==
  /\ rl = [c \in Cats |-> [a \in Accounts |-> NoCounter]]
  /\ now = 0
  /\ pc = [p \in Procs |-> "idle"]
  /\ loc = [p \in Procs |-> NoLoc]
  /\ win = [c \in Cats |-> [a \in Accounts |-> NoWin]]
  /\ hist = [p \in Procs |-> NoHist]
  /\ ncalls = 0
  /\ invocations = {}
  /\ nextId = 1
  /\ req = NoReq
  /\ out = NoOut
  /\ trace = << >>
  /\ nreq = 0

Init ==
  /\ InitProgram
  /\ fn = "none"
  /\ fpc = "idle"
  /\ query_items = << >>
  /\ chain = << >>
  /\ formatted_text = << >>
  /\ reply_content = << >>
  /\ pending_lines = << >>
  /\ attribute_map = EmptyMap

\* Counters of different keys are different items and never interact: the
\* calls of one behaviour all address the key of its first call.
SameKey(account_id, limit_type) ==
  \A q \in Procs :
     pc[q] # "idle" => loc[q].account = account_id /\ loc[q].cat = limit_type

\* db.py:334-345  a call starts: get_user_rate_limits, then the limit
check_rate_limit_start(p, account_id, limit_type, fail) ==
  /\ pc[p] \in {"idle", "done"}
  /\ ncalls < MaxCalls
  /\ SameKey(account_id, limit_type)
  /\ ncalls' = ncalls + 1
  /\ loc' = [loc EXCEPT ![p] =
       [NoLoc EXCEPT !.account = account_id, !.cat = limit_type,
          !.limit = limit_of(get_user_rate_limits(account_id, fail), limit_type)]]
  /\ hist' = [hist EXCEPT ![p] = [NoHist EXCEPT !.failed = fail]]
  /\ win' = [win EXCEPT ![limit_type][account_id].dirty = @ \/ fail]
  /\ pc' = [pc EXCEPT ![p] = "get_item"]
  /\ UNCHANGED <<rl, now>>
  /\ UNCHANGED orchVars
  /\ UNCHANGED fnVars

\* db.py:279-291  get_item decides item_exists; a failed read counts as
\* "no item"; the ttl is computed from the clock right after
rl_get_item(p, fail) ==
  /\ pc[p] = "get_item"
  /\ LET item == rl[loc[p].cat][loc[p].account] IN
     loc' = [loc EXCEPT ![p].item_exists = (~fail /\ item.present),
                        ![p].current_count =
                            IF ~fail /\ item.present THEN item.invocations ELSE 0,
                        ![p].ttl = now + TTL_SECONDS]
  /\ hist' = [hist EXCEPT ![p].failed = @ \/ fail]
  /\ win' = [win EXCEPT ![loc[p].cat][loc[p].account].dirty = @ \/ fail]
  /\ pc' = [pc EXCEPT ![p] = "update_item"]
  /\ UNCHANGED <<rl, now, ncalls>>
  /\ UNCHANGED orchVars
  /\ UNCHANGED fnVars

\* db.py:312-332 and 349-367  update_item, the returned count (0 when the
\* update fails) and the tuple check_rate_limit returns
rl_update_item(p, fail) ==
  /\ pc[p] = "update_item"
  /\ LET c == loc[p].cat
         a == loc[p].account
         item == update_item(rl[c][a], loc[p].item_exists,
                             loc[p].current_count, loc[p].ttl)
         new_count == IF fail THEN 0 ELSE item.invocations
     IN
     /\ rl' = IF fail THEN rl ELSE [rl EXCEPT ![c][a] = item]
     /\ loc' = [loc EXCEPT ![p].new_count = new_count,
                           ![p].current_count = 0,
                           ![p].ttl = 0,
                           ![p].result =
                              [exceeded |-> is_exceeded(new_count, loc[p].limit),
                               count |-> new_count,
                               limit |-> loc[p].limit]]
     /\ win' = [win EXCEPT ![c][a] =
                  [@ EXCEPT !.attempts = @ + 1,
                            !.succ = IF fail THEN @ ELSE @ + 1,
                            !.dirty = @ \/ fail]]
     /\ hist' = [hist EXCEPT ![p] =
                  [ord |-> win[c][a].attempts + 1,
                   succOrd |-> win[c][a].succ + 1,
                   epoch |-> win[c][a].epoch,
                   failed |-> hist[p].failed \/ fail,
                   clean |-> ~(hist[p].failed \/ fail \/ win[c][a].dirty),
                   updated |-> ~fail]]
  /\ pc' = [pc EXCEPT ![p] = "done"]
  /\ UNCHANGED <<now, ncalls>>
  /\ UNCHANGED orchVars
  /\ UNCHANGED fnVars

\* the clock advances
Tick ==
  /\ now + TickStep <= MaxTime
  /\ now' = now + TickStep
  /\ UNCHANGED <<rl, pc, loc, win, hist, ncalls>>
  /\ UNCHANGED orchVars
  /\ UNCHANGED fnVars

\* the store deletes a counter item whose ttl has passed
Expire(c, a) ==
  /\ rl[c][a].present
  /\ rl[c][a].ttl # NoTtl
  /\ rl[c][a].ttl < now
  /\ rl' = [rl EXCEPT ![c][a] = NoCounter]
  /\ win' = [win EXCEPT ![c][a] = [NoWin EXCEPT !.epoch = win[c][a].epoch + 1]]
  /\ UNCHANGED <<now, pc, loc, hist, ncalls>>
  /\ UNCHANGED orchVars
  /\ UNCHANGED fnVars

NextRL ==
  \/ \E p \in Procs, a \in Accounts, c \in Cats, fail \in BOOLEAN :
        check_rate_limit_start(p, a, c, fail)
  \/ \E p \in Procs, fail \in BOOLEAN : rl_get_item(p, fail)
  \/ \E p \in Procs, fail \in BOOLEAN : rl_update_item(p, fail)
  \/ Tick
  \/ \E c \in Cats, a \in Accounts : Expire(c, a)

SpecRL == Init /\ [][NextRL]_vars

(***************************************************************************)
(* db.check_rate_limit (lines 334-367) run to completion by one caller:    *)
(* the limit lookup, get_item, update_item and the comparison.  item is    *)
(* the stored counter item; the three flags say which store calls fail.    *)
(***************************************************************************)
check_rate_limit(item, account_id, limit_type, clock, fail_limits, fail_get, fail_update) ==
  LET limit == limit_of(get_user_rate_limits(account_id, fail_limits), limit_type)
      item_exists == ~fail_get /\ item.present
      current_count == IF item_exists THEN item.invocations ELSE 0
      updated == update_item(item, item_exists, current_count, clock + TTL_SECONDS)
      new_count == IF fail_update THEN 0 ELSE updated.invocations
  IN [item |-> IF fail_update THEN item ELSE updated,
      result |-> [exceeded |-> is_exceeded(new_count, limit),
                  count |-> new_count, limit |-> limit]]

(***************************************************************************)
(* Spec: orchestrated requests, one after the other, against the store.    *)
(***************************************************************************)
MaxRequests == 2
\* number of requests started in a behaviour

Events == {"nobody", "badjson", "nonobject", "noid"} \cup Convs
\* the event's body: absent, not JSON, JSON that is no object, an object
\* without conversationId, or an object carrying that conversation id

\* a variant that lets an internal error escape instead of answering 500
create_error_response_reraising(status_code, message, error_type) ==
  IF status_code = 500
  THEN [status |-> 0, errorType |-> "Raised", message |-> message,
        attributes |-> EmptyMap, accountId |-> None, emailCount |-> 0]
  ELSE [status |-> status_code, errorType |-> error_type, message |-> message,
        attributes |-> EmptyMap, accountId |-> None, emailCount |-> 0]

\* lambda_function.py:14-30
create_error_response(status_code, message, error_type) ==
  [status |-> status_code, errorType |-> error_type, message |-> message,
   attributes |-> EmptyMap, accountId |-> None, emailCount |-> 0]

\* lambda_function.py:32-45 with the data of lines 121-129
create_success_response(attributes, account_id, email_count) ==
  [status |-> 200, errorType |-> "", message |-> "",
   attributes |-> attributes, accountId |-> account_id,
   emailCount |-> email_count]

\* utils.LambdaError: an error carrying a status code and a message
LambdaError(status_code, message) ==
  [status |-> status_code, errorType |-> "LambdaError", message |-> message,
   attributes |-> EmptyMap, accountId |-> None, emailCount |-> 0]

\* a variant whose third component is the size of the attribute map
returned_triple_of_map(attributes, account_id, email_count) ==
  [status |-> 200, errorType |-> "", message |-> "",
   attributes |-> attributes, accountId |-> account_id,
   emailCount |-> Cardinality(DOMAIN attributes)]

\* what get_attributes_for_thread returns (thread_logic.py:43)
returned_triple(attributes, account_id, email_count) ==
  [status |-> 200, errorType |-> "", message |-> "",
   attributes |-> attributes, accountId |-> account_id,
   emailCount |-> email_count]

\* a variant that lets an empty chain through
chain_missing_never(email_chain) == FALSE

\* lambda_function.py:92 and thread_logic.py:32  if not email_chain:
chain_missing(email_chain) == Len(email_chain) = 0

StartRequest(kind, conversation_id) ==
  /\ req.pc \in {"idle", "done"}
  /\ nreq < MaxRequests
  /\ nreq' = nreq + 1
  /\ trace' = << >>
  /\ req' = [NoReq EXCEPT !.kind = kind, !.pc = "resolve",
                          !.conversation_id = conversation_id,
                          !.before = invocations]
  /\ out' = NoOut

\* lambda_function.py:62-79  the event is parsed; a 400 ends the request
\* here, a body that is JSON but no object ends in the handler's except
lh_start(event) ==
  /\ req.pc \in {"idle", "done"}
  /\ nreq < MaxRequests
  /\ IF event \in Convs
       THEN StartRequest("handler", event)
       ELSE /\ nreq' = nreq + 1
            /\ trace' = <<"respond">>
            /\ req' = [NoReq EXCEPT !.kind = "handler", !.pc = "done",
                                    !.before = invocations]
            /\ out' = CASE event = "nobody" ->
                             create_error_response(400, "Missing request body",
                                                   "MissingRequestBody")
                        [] event = "badjson" ->
                             create_error_response(400, "Invalid JSON in request body",
                                                   "InvalidJSON")
                        [] event = "noid" ->
                             create_error_response(400,
                                "Missing conversationId in request body",
                                "MissingConversationId")
                        [] OTHER ->
                             create_error_response(500, "Internal server error",
                                                   "InternalServerError")
  /\ UNCHANGED <<rl, now, invocations, nextId>>
  /\ UNCHANGED rlProcVars
  /\ UNCHANGED fnVars

\* a variant that ends the request with 404 when no account is found
lh_resolve_strict(fail) ==
  /\ req.kind = "handler" /\ req.pc = "resolve"
  /\ LET account_id == get_thread_account_id(req.conversation_id, fail) IN
     IF ~Truthy(account_id)
     THEN /\ out' = create_error_response(404, "Account not found",
                                          "AccountNotFound")
          /\ req' = [req EXCEPT !.pc = "done"]
          /\ trace' = trace \o <<"resolve", "respond">>
     ELSE /\ out' = out
          /\ req' = [req EXCEPT !.pc = "fetch", !.account_id = account_id]
          /\ trace' = Append(trace, "resolve")
  /\ UNCHANGED <<rl, now, invocations, nextId, nreq>>
  /\ UNCHANGED rlProcVars
  /\ UNCHANGED fnVars

\* lambda_function.py:81-87  the account is looked up; its absence is logged
lh_resolve(fail) ==
  /\ req.kind = "handler" /\ req.pc = "resolve"
  /\ req' = [req EXCEPT !.account_id =
                           get_thread_account_id(req.conversation_id, fail),
                        !.pc = "fetch"]
  /\ trace' = Append(trace, "resolve")
  /\ UNCHANGED <<rl, now, invocations, nextId, out, nreq>>
  /\ UNCHANGED rlProcVars
  /\ UNCHANGED fnVars

\* lambda_function.py:89-96
lh_fetch(fail) ==
  /\ req.kind = "handler" /\ req.pc = "fetch"
  /\ LET email_chain == get_email_chain(req.conversation_id, fail) IN
     IF chain_missing(email_chain)
     THEN /\ out' = create_error_response(404,
                       "No conversation found with the given ID",
                       "ConversationNotFound")
          /\ req' = [req EXCEPT !.pc = "done", !.fetch_fail = fail]
          /\ trace' = trace \o <<"fetch", "respond">>
     ELSE /\ out' = out
          /\ req' = [req EXCEPT !.pc = "model", !.email_chain = email_chain,
                                !.fetch_fail = fail]
          /\ trace' = Append(trace, "fetch")
  /\ UNCHANGED <<rl, now, invocations, nextId, nreq>>
  /\ UNCHANGED rlProcVars
  /\ UNCHANGED fnVars

\* a variant in which a call that failed is made a second time
model_steps_retrying(r) ==
  <<"format", "post">>
  \o (IF r.store_attempted THEN <<"store">> ELSE << >>)
  \o (IF r.raised # "None" THEN <<"post">> ELSE << >>)
  \o <<"respond">>

\* the steps a model-client call adds to the request's history
model_steps(r) ==
  <<"format", "post">>
  \o (IF r.store_attempted THEN <<"store">> ELSE << >>)
  \o <<"respond">>

\* lambda_function.py:98-142  the transcript, the model call, the response
lh_model(resp, store_fail) ==
  /\ req.kind = "handler" /\ req.pc = "model"
  /\ LET r == get_thread_attributes(format_conversation_for_llm(req.email_chain),
                 req.account_id, req.conversation_id, resp, store_fail, nextId)
     IN
     /\ invocations' = IF r.stored THEN invocations \cup {r.record} ELSE invocations
     /\ nextId' = IF r.store_attempted THEN nextId + 1 ELSE nextId
     /\ trace' = trace \o model_steps(r)
     /\ req' = [req EXCEPT !.pc = "done", !.resp = resp,
                           !.store_fail = store_fail, !.raised = r.raised]
     /\ out' = CASE r.raised = "None" ->
                      create_success_response(r.attributes, req.account_id,
                                              Len(req.email_chain))
                 [] r.raised = "ValueError" ->
                      create_error_response(422, "str(e)", "LLMValidationError")
                 [] OTHER ->
                      create_error_response(500, "Internal server error",
                                            "InternalServerError")
  /\ UNCHANGED <<rl, now, nreq>>
  /\ UNCHANGED rlProcVars
  /\ UNCHANGED fnVars

\* thread_logic.py:17  get_attributes_for_thread(conversation_id) is called
gt_start(conversation_id) ==
  /\ StartRequest("thread", conversation_id)
  /\ UNCHANGED <<rl, now, invocations, nextId>>
  /\ UNCHANGED rlProcVars
  /\ UNCHANGED fnVars

\* thread_logic.py:21-23
gt_resolve(fail) ==
  /\ req.kind = "thread" /\ req.pc = "resolve"
  /\ LET account_id == get_thread_account_id(req.conversation_id, fail) IN
     IF ~Truthy(account_id)
     THEN /\ out' = LambdaError(404, "Account not found for this conversation.")
          /\ req' = [req EXCEPT !.pc = "done"]
          /\ trace' = trace \o <<"resolve", "respond">>
     ELSE /\ out' = out
          /\ req' = [req EXCEPT !.pc = "rate_AWS", !.account_id = account_id]
          /\ trace' = Append(trace, "resolve")
  /\ UNCHANGED <<rl, now, invocations, nextId, nreq>>
  /\ UNCHANGED rlProcVars
  /\ UNCHANGED fnVars

\* thread_logic.py:28-29  invoke_lambda('RateLimitAWS', ...) and then
\* invoke_lambda('RateLimitAI', ...): the rate limiter checks and counts the
\* category; what it returns is not looked at
invoke_lambda(limit_type, fail_limits, fail_get, fail_update) ==
  /\ req.kind = "thread" /\ req.pc = "rate_" \o limit_type
  /\ LET r == check_rate_limit(rl[limit_type][req.account_id], req.account_id,
                               limit_type, now, fail_limits, fail_get, fail_update)
     IN rl' = [rl EXCEPT ![limit_type][req.account_id] = r.item]
  /\ req' = [req EXCEPT !.pc = IF limit_type = "AWS" THEN "rate_AI" ELSE "fetch"]
  /\ trace' = Append(trace, "rate_" \o limit_type)
  /\ UNCHANGED <<now, invocations, nextId, out, nreq>>
  /\ UNCHANGED rlProcVars
  /\ UNCHANGED fnVars

\* thread_logic.py:31-35
gt_fetch(fail) ==
  /\ req.kind = "thread" /\ req.pc = "fetch"
  /\ LET email_chain == get_email_chain(req.conversation_id, fail) IN
     IF chain_missing(email_chain)
     THEN /\ out' = LambdaError(404, "No conversation found with the given ID.")
          /\ req' = [req EXCEPT !.pc = "done", !.fetch_fail = fail]
          /\ trace' = trace \o <<"fetch", "respond">>
     ELSE /\ out' = out
          /\ req' = [req EXCEPT !.pc = "model", !.email_chain = email_chain,
                                !.fetch_fail = fail]
          /\ trace' = Append(trace, "fetch")
  /\ UNCHANGED <<rl, now, invocations, nextId, nreq>>
  /\ UNCHANGED rlProcVars
  /\ UNCHANGED fnVars

\* thread_logic.py:35-50
gt_model(resp, store_fail) ==
  /\ req.kind = "thread" /\ req.pc = "model"
  /\ LET r == get_thread_attributes(format_conversation_for_llm(req.email_chain),
                 req.account_id, req.conversation_id, resp, store_fail, nextId)
     IN
     /\ invocations' = IF r.stored THEN invocations \cup {r.record} ELSE invocations
     /\ nextId' = IF r.store_attempted THEN nextId + 1 ELSE nextId
     /\ trace' = trace \o model_steps(r)
     /\ req' = [req EXCEPT !.pc = "done", !.resp = resp,
                           !.store_fail = store_fail, !.raised = r.raised]
     /\ out' = CASE r.raised = "None" ->
                      returned_triple(r.attributes, req.account_id,
                                      Len(req.email_chain))
                 [] r.raised = "ValueError" -> LambdaError(422, "str(e)")
                 [] OTHER ->
                      LambdaError(500, "Failed to get thread attributes from LLM.")
  /\ UNCHANGED <<rl, now, nreq>>
  /\ UNCHANGED rlProcVars
  /\ UNCHANGED fnVars

Next ==
  \/ \E event \in Events : lh_start(event)
  \/ \E fail \in BOOLEAN : lh_resolve(fail)
  \/ \E fail \in BOOLEAN : lh_fetch(fail)
  \/ \E resp \in Responses, store_fail \in BOOLEAN : lh_model(resp, store_fail)
  \/ \E c \in Convs : gt_start(c)
  \/ \E fail \in BOOLEAN : gt_resolve(fail)
  \/ \E limit_type \in Cats, f1 \in BOOLEAN, f2 \in BOOLEAN, f3 \in BOOLEAN :
        invoke_lambda(limit_type, f1, f2, f3)
  \/ \E fail \in BOOLEAN : gt_fetch(fail)
  \/ \E resp \in Responses, store_fail \in BOOLEAN : gt_model(resp, store_fail)

Spec == Init /\ [][Next]_vars

(***************************************************************************)
(* SpecFn: the three pure functions of the program, each applied to every  *)
(* input of a bounded set: get_email_chain's sort and projection of the    *)
(* queried items (followed by the transcript, as the orchestrations do),   *)
(* format_conversation_for_llm on any sequence of records, and the loop    *)
(* that parses the model reply.                                            *)
(***************************************************************************)
MaxItems == 3
\* longest sequence of items or records

MaxReplyLen == 6
\* longest reply text, in characters

\* timestamp strings of stored items: '', '1', '10', '2'
Timestamps == { << >>, <<1>>, <<1, 0>>, <<2>> }

\* a stored item: with or without a timestamp; with all other fields,
\* without a subject, or with nothing else
StoredItem(has_timestamp, timestamp, shape) ==
  [f \in (IF has_timestamp THEN {"timestamp"} ELSE {})
         \cup (CASE shape = "full" -> {"subject", "body", "sender", "type"}
                 [] shape = "no_subject" -> {"body", "sender", "type"}
                 [] OTHER -> {})
     |-> CASE f = "timestamp" -> timestamp
           [] f = "subject" -> "s1"
           [] f = "body" -> "b1"
           [] f = "sender" -> "u1"
           [] OTHER -> "email"]

StoredItems ==
  { StoredItem(h, t, sh) : h \in BOOLEAN, t \in Timestamps,
                           sh \in {"full", "no_subject", "bare"} }

\* records handed to the formatter: the subject and the body may be
\* missing, and may themselves consist of a label text
FormatRecord(subject, body) ==
  [f \in (IF subject = None THEN {} ELSE {"subject"})
         \cup (IF body = None THEN {} ELSE {"body"})
     |-> IF f = "subject" THEN subject ELSE body]

FormatRecords ==
  { FormatRecord(sj, bd) : sj \in {None, "", "s1", "Body: "},
                           bd \in {None, "b1", "Subject: "} }

\* the characters of a reply text
ReplyChars == {"a", "b", ":", " ", "NL"}

SeqsUpTo(S, n) == UNION { [1..k -> S] : k \in 0..n }

InitFn ==
  /\ InitProgram
  /\ formatted_text = << >>
  /\ pending_lines = << >>
  /\ attribute_map = EmptyMap
  /\ \/ /\ fn = "get_email_chain" /\ fpc = "get_email_chain"
        /\ query_items \in SeqsUpTo(StoredItems, MaxItems)
        /\ chain = << >>
        /\ reply_content = << >>
     \/ /\ fn = "format_conversation_for_llm" /\ fpc = "format"
        /\ query_items = << >>
        /\ chain \in SeqsUpTo(FormatRecords, MaxItems)
        /\ reply_content = << >>
     \/ /\ fn = "parse" /\ fpc = "parse"
        /\ query_items = << >>
        /\ chain = << >>
        /\ reply_content \in SeqsUpTo(ReplyChars, MaxReplyLen)

\* db.py:39-68  the queried items are sorted and projected
fn_get_email_chain ==
  /\ fpc = "get_email_chain"
  /\ chain' = formatted_chain(query_items)
  /\ fpc' = "format"
  /\ UNCHANGED <<fn, query_items, formatted_text, reply_content,
                 pending_lines, attribute_map>>
  /\ UNCHANGED <<rl, now>>
  /\ UNCHANGED rlProcVars
  /\ UNCHANGED orchVars

\* utils.py:3-10  the transcript of the email chain
fn_format ==
  /\ fpc = "format"
  /\ formatted_text' = format_conversation_for_llm(chain)
  /\ fpc' = "done"
  /\ UNCHANGED <<fn, query_items, chain, reply_content,
                 pending_lines, attribute_map>>
  /\ UNCHANGED <<rl, now>>
  /\ UNCHANGED rlProcVars
  /\ UNCHANGED orchVars

\* llm_interface.py:116-117  attributes = {} ; content.split('\n')
fn_split ==
  /\ fpc = "parse"
  /\ pending_lines' = split_lines(reply_content)
  /\ attribute_map' = EmptyMap
  /\ fpc' = "loop"
  /\ UNCHANGED <<fn, query_items, chain, formatted_text, reply_content>>
  /\ UNCHANGED <<rl, now>>
  /\ UNCHANGED rlProcVars
  /\ UNCHANGED orchVars

\* llm_interface.py:117-120  one turn of the loop
fn_parse_line ==
  /\ fpc = "loop"
  /\ pending_lines # << >>
  /\ attribute_map' = parse_line(attribute_map, Head(pending_lines))
  /\ pending_lines' = Tail(pending_lines)
  /\ UNCHANGED <<fn, fpc, query_items, chain, formatted_text, reply_content>>
  /\ UNCHANGED <<rl, now>>
  /\ UNCHANGED rlProcVars
  /\ UNCHANGED orchVars

\* the loop is over: the map is what the parse yields
fn_parsed ==
  /\ fpc = "loop"
  /\ pending_lines = << >>
  /\ fpc' = "done"
  /\ UNCHANGED <<fn, query_items, chain, formatted_text, reply_content,
                 pending_lines, attribute_map>>
  /\ UNCHANGED <<rl, now>>
  /\ UNCHANGED rlProcVars
  /\ UNCHANGED orchVars

NextFn ==
  \/ fn_get_email_chain
  \/ fn_format
  \/ fn_split
  \/ fn_parse_line
  \/ fn_parsed

SpecFn == InitFn /\ [][NextFn]_vars

(***************************************************************************)
(* Claims about the rate limiter, checked under SpecRL.                    *)
(***************************************************************************)
ConfiguredLimit(a, c) ==
  IF c = "AWS" THEN UsersTable[a].rl_aws ELSE UsersTable[a].rl_ai

\* a finished call none of whose store calls failed, in a window in which
\* no store call had failed
CleanCall(p) == pc[p] = "done" /\ hist[p].clean

(* C1: for an account whose configured ceiling for the category is L, and
   with no store failure, the k-th check_rate_limit call of a TTL window
   (calls ordered by their update_item) returns limit L, currentCount k and
   exceeded = (k > L): false for calls 1..L, true from call L+1 on. *)
C1_ExceededFromCallLPlus1 ==
  \A p \in Procs :
    CleanCall(p) /\ UsersTable[loc[p].account].present =>
      LET L == ConfiguredLimit(loc[p].account, loc[p].cat) IN
      /\ loc[p].result.limit = L
      /\ loc[p].result.count = hist[p].ord
      /\ loc[p].result.exceeded = (hist[p].ord > L)

\* the third call of a window for the category whose ceiling is 2 has
\* returned exceeded = true
C1_Witness ==
  \E p \in Procs :
    /\ CleanCall(p)
    /\ loc[p].account = "a1" /\ loc[p].cat = "AI"
    /\ hist[p].ord = 3
    /\ loc[p].result.exceeded

(* C2 (as stated): while no store call fails, the write that creates a
   counter item sets a ttl at most TTL_SECONDS ahead of the clock and starts
   the count at 1, and an increment of an existing item leaves its ttl
   where it was. *)
C2_TtlSetOnceNeverMoved ==
  [][\A c \in Cats, a \in Accounts :
       (~win[c][a].dirty /\ ~win'[c][a].dirty) =>
         /\ (~rl[c][a].present /\ rl'[c][a].present =>
               /\ rl'[c][a].ttl # NoTtl
               /\ rl'[c][a].ttl <= now + TTL_SECONDS
               /\ rl'[c][a].invocations = 1)
         /\ (rl[c][a].present /\ rl'[c][a].present =>
               rl'[c][a].ttl = rl[c][a].ttl)]_vars

(* C3: no increment is lost under concurrency: in every TTL window the
   stored counter equals the number of update_item calls that succeeded in
   it, each such call returns its own position among them, and two calls of
   one window never return the same count. *)
C3_NoLostIncrement ==
  /\ \A c \in Cats, a \in Accounts :
       rl[c][a].present => rl[c][a].invocations = win[c][a].succ
  /\ \A p \in Procs :
       pc[p] = "done" /\ hist[p].updated => loc[p].new_count = hist[p].succOrd
  /\ \A p, q \in Procs :
       (/\ p # q
        /\ pc[p] = "done" /\ pc[q] = "done"
        /\ hist[p].updated /\ hist[q].updated
        /\ hist[p].epoch = hist[q].epoch) => loc[p].new_count # loc[q].new_count

\* two overlapping calls (both read the key before either wrote it) have
\* returned 1 and 2
C3_Witness ==
  /\ \A p \in Procs :
       /\ pc[p] = "done" /\ hist[p].updated /\ ~hist[p].failed
       /\ ~loc[p].item_exists
       /\ hist[p].epoch = 0
  /\ {loc[p].new_count : p \in Procs} = {1, 2}
  /\ rl[loc["p1"].cat][loc["p1"].account].invocations = 2

(***************************************************************************)
(* Claims about the model client and the orchestrations, checked under     *)
(* Spec.                                                                   *)
(***************************************************************************)
Steps == {trace[i] : i \in 1..Len(trace)}

Count(step) == Cardinality({i \in 1..Len(trace) : trace[i] = step})

\* the current request has finished and its model-client call was made
ModelCalled == req.pc = "done" /\ "post" \in Steps

\* HTTP 200 with a body that has "choices" and a usage section that reads
HttpSuccess(resp) ==
  /\ resp.net /\ resp.status = 200
  /\ resp.body = "object"
  /\ resp.usage.kind # "null"

RecordWritten == invocations # req.before

(* C4 (as stated): an InvocationRecord is written during a model-client
   call if and only if the model call succeeded (HTTP 200, usage readable)
   and an account id was supplied; a record is written in every call that
   returns successfully with a known account. *)
C4_RecordIffSuccessAndAccount ==
  ModelCalled =>
    /\ RecordWritten <=> (HttpSuccess(req.resp) /\ Truthy(req.account_id))
    /\ (req.raised = "None" /\ Truthy(req.account_id) => RecordWritten)

(* C4 (amended): the write of an InvocationRecord is attempted if and only
   if the model call succeeded (HTTP 200, "choices" present, usage readable)
   and an account id was supplied, and the record is written if and only if
   that write also succeeds at the store; no record is written when the
   account id is absent, the status is not 200 or the body lacks
   "choices". *)
C4_RecordIffSuccessAccountAndStoreOk ==
  ModelCalled =>
    /\ ("store" \in Steps) <=> (HttpSuccess(req.resp) /\ Truthy(req.account_id))
    /\ RecordWritten <=>
         (HttpSuccess(req.resp) /\ Truthy(req.account_id) /\ ~req.store_fail)
    /\ (~Truthy(req.account_id) => ~RecordWritten)
    /\ (req.resp.status # 200 => ~RecordWritten)
    /\ (req.resp.body = "nochoices" => ~RecordWritten)
    /\ Cardinality(invocations) <= Cardinality(req.before) + 1

\* a call with a known account returned successfully and its record is in
\* the table
C4_Witness ==
  /\ ModelCalled /\ req.raised = "None" /\ Truthy(req.account_id)
  /\ RecordWritten
  /\ \E item \in invocations \ req.before :
        item.associated_account = req.account_id

(* C5: when the conversation id has no Threads entry, or the entry lacks
   the account field, the orchestrated request ends with a status-404
   account-not-found error and performs no rate-limit check, no email-chain
   fetch and no model call. *)
C5_MissingAccountEnds404 ==
  (/\ req.kind # "none"
   /\ "resolve" \in Steps
   /\ \/ ~ThreadsTable[req.conversation_id].present
      \/ ~Truthy(ThreadsTable[req.conversation_id].associated_account))
  =>
   /\ Steps \cap {"rate_AWS", "rate_AI", "fetch", "post"} = {}
   /\ (req.pc = "done" =>
         /\ out.status = 404
         /\ out.message = "Account not found for this conversation.")

StepRank(step) ==
  CASE step = "resolve"  -> 1
    [] step = "rate_AWS" -> 2
    [] step = "rate_AI"  -> 3
    [] step = "fetch"    -> 4
    [] step = "format"   -> 5
    [] step = "post"     -> 6
    [] step = "store"    -> 7
    [] OTHER             -> 8

(* C6: in every orchestrated request the steps occur in the strict order
   account resolution, rate-limit checks for both categories, email-chain
   fetch, model call, response assembly, and both rate-limit checks are
   performed on every request that resolves an account. *)
C6_StrictOrderWithRateChecks ==
  /\ \A i, j \in 1..Len(trace) : i < j => StepRank(trace[i]) < StepRank(trace[j])
  /\ (Truthy(req.account_id) /\ Steps \cap {"fetch", "post", "respond"} # {})
       => {"rate_AWS", "rate_AI"} \subseteq Steps

(* C7: when the fetched email chain is empty the request ends with a
   status-404 conversation-not-found error, no model call is made and no
   InvocationRecord is written; a failed query and a conversation with no
   records end in the same response. *)
C7_EmptyChainEnds404 ==
  (req.pc = "done" /\ "fetch" \in Steps /\ Len(req.email_chain) = 0) =>
    /\ out = IF req.kind = "handler"
             THEN create_error_response(404,
                     "No conversation found with the given ID",
                     "ConversationNotFound")
             ELSE LambdaError(404, "No conversation found with the given ID.")
    /\ Steps \cap {"format", "post", "store"} = {}
    /\ ~RecordWritten

\* the query of a conversation that has records failed, and the request
\* ended as for a conversation without records
C7_Witness ==
  /\ req.pc = "done" /\ "fetch" \in Steps
  /\ req.fetch_fail
  /\ Len(ConversationsTable[req.conversation_id]) > 0
  /\ out.status = 404
  /\ "post" \notin Steps

(* C8: a failure raised by the model client is surfaced with status 422
   when it is a ValueError and with status 500 otherwise; a call that fails
   because the HTTP status is not 200 or the body lacks "choices" is
   surfaced as 500; no model-layer failure ends without a status code. *)
C8_ModelFailureStatus ==
  ModelCalled =>
    /\ (req.raised = "ValueError" => out.status = 422)
    /\ (req.raised = "Exception" => out.status = 500)
    /\ (req.resp.net /\ (req.resp.status # 200 \/ req.resp.body = "nochoices")
          => out.status = 500)
    /\ out.status \in {200, 422, 500}

(* C9: the model client fails, with the error raised to its caller and no
   attribute map returned, whenever the HTTP status is not 200 or the
   decoded body has no "choices" field; in that call the POST was issued
   once and no InvocationRecord write was attempted or made. *)
C9_ShapeFailurePropagates ==
  (/\ ModelCalled
   /\ req.resp.net
   /\ req.resp.status # 200 \/ req.resp.body \in {"nochoices", "null"})
  =>
   /\ req.raised # "None"
   /\ out.status \in {422, 500}
   /\ out.attributes = EmptyMap
   /\ Count("post") = 1
   /\ "store" \notin Steps
   /\ ~RecordWritten

\* a reply with status 500 whose body is a well-formed object ended in an
\* error with nothing stored
C9_Witness ==
  /\ ModelCalled
  /\ req.resp.net /\ req.resp.status = 500 /\ req.resp.body = "object"
  /\ Truthy(req.account_id)
  /\ out.status = 500
  /\ ~RecordWritten

(* C10: a failure to store the InvocationRecord never fails the
   model-client call: when the HTTP call succeeded and the store write
   failed, the call ends as it would have with the write succeeding, and a
   reply with a first choice yields the attribute map parsed from it. *)
C10_StoreFailureTolerated ==
  (ModelCalled /\ "store" \in Steps /\ req.store_fail) =>
    LET ok == get_thread_attributes(format_conversation_for_llm(req.email_chain),
                 req.account_id, req.conversation_id, req.resp, FALSE, nextId)
    IN /\ req.raised = ok.raised
       /\ out.attributes = ok.attributes
       /\ (req.resp.choices # << >> =>
             /\ req.raised = "None"
             /\ out.status = 200
             /\ out.attributes = parse_attributes(req.resp.choices[1]))

\* the store write failed and the call still returned a non-empty map
C10_Witness ==
  /\ ModelCalled /\ "store" \in Steps /\ req.store_fail
  /\ out.status = 200
  /\ DOMAIN out.attributes # {}
  /\ ~RecordWritten


(* C11: parsing the model reply never raises: for every HTTP-200 response
   whose body is an object with a "choices" field, whatever the rest of its
   shape (an empty choices list, an empty or malformed content; the usage
   section, read before the parse, being absent or a mapping), the
   model-client call returns an attribute map and not an error. *)
C11_ParsingNeverRaises ==
  (ModelCalled /\ req.resp.net /\ req.resp.status = 200
     /\ req.resp.body = "object" /\ req.resp.usage.kind # "null") =>
    /\ req.raised = "None"
    /\ out.status = 200


(***************************************************************************)
(* The reference mapping of a reply text, stated line by line and without  *)
(* the operators of the parser.                                            *)
(***************************************************************************)
\* s without its leading and trailing blanks
Trimmed(s) ==
  LET inked == {i \in 1..Len(s) : s[i] # " "}
  IN IF inked = {} THEN << >>
     ELSE SubSeq(s, CHOOSE i \in inked : \A j \in inked : i <= j,
                    CHOOSE i \in inked : \A j \in inked : j <= i)

\* the positions of the colons of a line
Colons(line) == {i \in 1..Len(line) : line[i] = ":"}

FirstColon(line) == CHOOSE i \in Colons(line) : \A j \in Colons(line) : i <= j

RefKey(line) == Trimmed(SubSeq(line, 1, FirstColon(line) - 1))

RefValue(line) == Trimmed(SubSeq(line, FirstColon(line) + 1, Len(line)))

\* the mapping built line by line from the lines ls: a line with a colon
\* contributes its entry, a later entry of the same key replacing an earlier
Reference(ls) ==
  LET with_colon == {i \in 1..Len(ls) : Colons(ls[i]) # {}}
      keys == {RefKey(ls[i]) : i \in with_colon}
      last(k) == CHOOSE i \in with_colon :
                    /\ RefKey(ls[i]) = k
                    /\ \A j \in with_colon : RefKey(ls[j]) = k => j <= i
  IN [k \in keys |-> RefValue(ls[last(k)])]

ColonLines(ls) == {i \in 1..Len(ls) : Colons(ls[i]) # {}}

(* C12: the attribute map parsed from a reply equals the reference mapping
   built line by line: each line containing ':' contributes the entry
   (text before the first colon, trimmed) -> (all text after the first
   colon, trimmed), so later colons stay in the value; each line without
   ':' contributes nothing; the number of entries never exceeds the number
   of lines containing ':'. *)
C12_ParsedMapIsReference ==
  (fn = "parse" /\ fpc = "done") =>
    LET ls == split_lines(reply_content) IN
    /\ attribute_map = Reference(ls)
    /\ attribute_map = parse_attributes(reply_content)
    /\ Cardinality(DOMAIN attribute_map) <= Cardinality(ColonLines(ls))
    /\ (ColonLines(ls) = {} => attribute_map = EmptyMap)

\* a parsed reply with a line to skip, a value that keeps a later colon and
\* a key and a value that had blanks around them
C12_Witness ==
  /\ fn = "parse" /\ fpc = "done"
  /\ reply_content = <<"b", "NL", "a", " ", ":", ":">>
  /\ attribute_map = [k \in {<<"a">>} |-> <<":">>]


\* how many pieces of the transcript are the label text
Occurrences(label) ==
  Cardinality({i \in 1..Len(formatted_text) : formatted_text[i] = label})

Formatted == fn \in {"get_email_chain", "format_conversation_for_llm"} /\ fpc = "done"

\* no subject and no body of the chain is itself a label text
LabelFree ==
  \A i \in 1..Len(chain) :
     /\ item_get(chain[i], "subject") \notin {"Subject: ", "Body: "}
     /\ item_get(chain[i], "body") \notin {"Subject: ", "Body: "}

\* the transcript is one block per record, in input order, each block
\* ending in a blank line
BlockPerRecord ==
  /\ Len(formatted_text) = 6 * Len(chain)
  /\ \A i \in 1..Len(chain) :
        SubSeq(formatted_text, 6 * i - 5, 6 * i) =
          <<"Subject: ", item_get(chain[i], "subject"), "\n",
            "Body: ", item_get(chain[i], "body"), "\n\n">>

(* C13, as stated: for any ordered sequence of N email records, the
   formatted transcript contains exactly N occurrences of "Subject: " and
   exactly N of "Body: ", in input order, each record followed by a blank
   line, and the empty sequence formats to the empty string. *)
C13_ExactlyNLabels ==
  Formatted =>
    /\ Occurrences("Subject: ") = Len(chain)
    /\ Occurrences("Body: ") = Len(chain)
    /\ BlockPerRecord
    /\ (chain = << >> => formatted_text = << >>)

(* C13, amended: the transcript is the concatenation, in input order, of
   one block "Subject: <subject>\nBody: <body>\n\n" per record, so each
   record is followed by a blank line and the empty sequence formats to the
   empty string; it contains at least N occurrences of each label, and
   exactly N when no subject or body itself contains a label text. *)
C13_BlockPerRecord ==
  Formatted =>
    /\ BlockPerRecord
    /\ (chain = << >> => formatted_text = << >>)
    /\ Occurrences("Subject: ") >= Len(chain)
    /\ Occurrences("Body: ") >= Len(chain)
    /\ (LabelFree => /\ Occurrences("Subject: ") = Len(chain)
                     /\ Occurrences("Body: ") = Len(chain))

\* three records formatted, one of them with a body that is the text
\* "Subject: " and one without a subject
C13_Witness ==
  /\ Formatted
  /\ Len(chain) = 3
  /\ ~LabelFree
  /\ \E i \in 1..3 : "subject" \notin DOMAIN chain[i]
  /\ Occurrences("Subject: ") = 4
  /\ Occurrences("Body: ") = 3


\* the request in progress went down the happy path: its conversation
\* resolved to an account, its chain has records, and the model answered
\* with a reply text
HappyPath ==
  /\ ModelCalled
  /\ Truthy(req.account_id)
  /\ Len(req.email_chain) > 0
  /\ HttpSuccess(req.resp)
  /\ req.resp.choices # << >>

\* the keys of the lines of ls that have a colon are pairwise different
DistinctKeys(ls) ==
  \A i \in ColonLines(ls), j \in ColonLines(ls) :
     RefKey(ls[i]) = RefKey(ls[j]) => i = j

(* C14: on the happy path the orchestrator returns the triple (attribute
   map parsed from the model reply, account id resolved for the
   conversation, number of email records fetched): for a conversation that
   resolves to an account, has a non-empty chain of n records and a model
   reply with k well-formed distinct-key lines, the result is (k-entry map,
   that account id, n). *)
C14_HappyPathTriple ==
  HappyPath =>
    LET ls == split_lines(req.resp.choices[1]) IN
    /\ out.status = 200
    /\ out.attributes = Reference(ls)
    /\ out.accountId = ThreadsTable[req.conversation_id].associated_account
    /\ out.emailCount = Len(ConversationsTable[req.conversation_id])
    /\ (DistinctKeys(ls) =>
          Cardinality(DOMAIN out.attributes) = Cardinality(ColonLines(ls)))

\* get_attributes_for_thread returned a two-entry map, account a1 and the
\* two records of c1
C14_Witness ==
  /\ HappyPath
  /\ req.kind = "thread"
  /\ req.conversation_id = "c1"
  /\ DistinctKeys(split_lines(req.resp.choices[1]))
  /\ Cardinality(DOMAIN out.attributes) = 2
  /\ out.accountId = "a1"
  /\ out.emailCount = 2


\* the current request's model-client call wrote a record
WroteRecord == ModelCalled /\ RecordWritten

(* C15: two successful model calls for two different conversation ids with
   the same account produce two InvocationRecords with distinct ids, and
   every stored InvocationRecord satisfies total_tokens = input_tokens +
   output_tokens with llm_email_type equal to "thread_attributes". *)
C15_DistinctRecordsAccurateSums ==
  /\ \A r \in invocations :
        /\ r.total_tokens = r.input_tokens + r.output_tokens
        /\ r.llm_email_type = "thread_attributes"
  /\ \A r1 \in invocations, r2 \in invocations : r1.id = r2.id => r1 = r2
  /\ (WroteRecord /\ req.before # {}) =>
        /\ Cardinality(invocations) = Cardinality(req.before) + 1
        /\ \A r \in req.before, w \in invocations \ req.before : r.id # w.id

\* two records of account a1, one for c1 and one for c2, with different ids
\* and a token sum that is not zero
C15_Witness ==
  /\ WroteRecord
  /\ \E r1 \in invocations, r2 \in invocations :
        /\ r1.conversation_id = "c1" /\ r2.conversation_id = "c2"
        /\ r1.associated_account = "a1" /\ r2.associated_account = "a1"
        /\ r1.id # r2.id
        /\ r1.total_tokens = 5
  /\ Cardinality(invocations) = 2


(* C16: any internal failure during a rate-limit check degrades the result
   to exactly (exceeded=false, currentCount=0, limit=0); in particular,
   when the counter increment fails at the store for an account with
   configured limit L, check_rate_limit returns (false, 0, 0). *)
C16_FailureDegradesToZeros ==
  \A p \in Procs :
     (pc[p] = "done" /\ hist[p].failed) =>
        loc[p].result = [exceeded |-> FALSE, count |-> 0, limit |-> 0]


\* the Users table has no record of the account
RecordMissing(a) == ~UsersTable[a].present

(* C17: when the account record is missing from the limits table, the
   limit used by check_rate_limit is 0 and the check reports exceeded=true
   on every call, including the first one in a window, provided the counter
   increment itself succeeds. *)
C17_MissingRecordAlwaysExceeded ==
  \A p \in Procs :
     (pc[p] = "done" /\ RecordMissing(loc[p].account) /\ hist[p].updated) =>
        /\ loc[p].result.limit = 0
        /\ loc[p].result.exceeded
        /\ loc[p].result.count >= 1

\* the first call of a window for account a2, which has no record
C17_Witness ==
  \E p \in Procs :
     /\ pc[p] = "done" /\ loc[p].account = "a2" /\ hist[p].updated
     /\ hist[p].succOrd = 1
     /\ loc[p].result = [exceeded |-> TRUE, count |-> 1, limit |-> 0]


\* the count the store holds for an item (an absent item counts as 0)
StoredCount(item) == IF item.present THEN item.invocations ELSE 0

\* p's call takes its update_item step
UpdateStep(p) == pc[p] = "update_item" /\ pc'[p] = "done"

\* the counter of p's key rises by exactly one
RisesByOne(p) ==
  LET c == loc[p].cat
      a == loc[p].account
  IN /\ rl'[c][a].present
     /\ rl'[c][a].invocations = StoredCount(rl[c][a]) + 1
     /\ \A c2 \in Cats, a2 \in Accounts :
           <<c2, a2>> # <<c, a>> => rl'[c2][a2] = rl[c2][a2]

(* C18, as stated: every call of check_rate_limit increments the counter
   of its (account, category) exactly once, regardless of the outcome of
   the check: also when the result is exceeded=true, when the account
   record is missing, and when the limit lookup fails. *)
C18_EveryCallIncrementsOnce ==
  [][\A p \in Procs :
       /\ UpdateStep(p) => RisesByOne(p)
       /\ (pc'[p] # pc[p] /\ ~UpdateStep(p)) => rl' = rl
       /\ (pc[p] = "get_item" /\ pc'[p] # pc[p]) => pc'[p] = "update_item"]_vars

(* C18, amended: every call attempts the increment exactly once, whatever
   the limit lookup gave (a ceiling, zeros for a missing record, zeros for
   a failed lookup) and whatever the comparison will say; the counter
   rises by exactly one when that update succeeds at the store and stays
   as it is when the update fails. *)
C18_IncrementsOnceWhenUpdateSucceeds ==
  [][\A p \in Procs :
       /\ UpdateStep(p) => IF hist'[p].updated THEN RisesByOne(p) ELSE rl' = rl
       /\ (pc'[p] # pc[p] /\ ~UpdateStep(p)) => rl' = rl
       /\ (pc[p] = "get_item" /\ pc'[p] # pc[p]) => pc'[p] = "update_item"]_vars

\* a call for a1 whose limit lookup failed has counted and reported
\* exceeded, on top of an earlier call that had exceeded already
C18_Witness ==
  \E p \in Procs :
     /\ pc[p] = "done" /\ hist[p].updated
     /\ loc[p].account = "a1" /\ loc[p].cat = "AWS" /\ loc[p].limit = 0
     /\ loc[p].result = [exceeded |-> TRUE, count |-> 3, limit |-> 0]
     /\ rl["AWS"]["a1"].invocations = 3


(* C19: there are no automatic retries: on every path of one orchestrated
   request, successful or failing, the model HTTP POST is issued at most
   once, the InvocationRecord write is attempted at most once, and each
   store read (account lookup, chain query) is issued at most once. *)
C19_NoRetries ==
  /\ Count("post") <= 1
  /\ Count("store") <= 1
  /\ Count("resolve") <= 1
  /\ Count("fetch") <= 1
  /\ Count("format") <= 1
  /\ (req.pc = "done" /\ out.status # 200) =>
        /\ Count("respond") = 1
        /\ trace[Len(trace)] = "respond"
  /\ Cardinality(invocations) <= Cardinality(req.before) + 1

\* a request that failed after its POST and its record write, each made once
C19_Witness ==
  /\ ModelCalled
  /\ req.raised # "None"
  /\ out.status = 500
  /\ Count("post") = 1 /\ Count("store") = 1
  /\ Count("resolve") = 1 /\ Count("fetch") = 1


\* the sort key of a stored item: its timestamp string, '' when it has none
Key(item) == IF "timestamp" \in DOMAIN item THEN item["timestamp"] ELSE << >>

\* x sorts strictly before y as Python strings: at the first position where
\* they differ x has the smaller character, or x is a proper prefix of y
StrLess(x, y) ==
  \E k \in 1..(Len(y)) :
     /\ \A j \in 1..(k - 1) : j <= Len(x) /\ x[j] = y[j]
     /\ \/ k = Len(x) + 1
        \/ k <= Len(x) /\ x[k] < y[k]

\* where the i-th queried item belongs in the sorted chain: after every
\* item with a smaller key and after the earlier items with an equal key
Place(i) ==
  Cardinality({j \in 1..Len(query_items) :
                 StrLess(Key(query_items[j]), Key(query_items[i]))})
  + Cardinality({j \in 1..i : Key(query_items[j]) = Key(query_items[i])})

\* the fixed shape of an email record
Projected(item) ==
  [subject |-> IF "subject" \in DOMAIN item THEN item["subject"] ELSE "",
   body |-> IF "body" \in DOMAIN item THEN item["body"] ELSE "",
   sender |-> IF "sender" \in DOMAIN item THEN item["sender"] ELSE "",
   timestamp |-> Key(item),
   type |-> IF "type" \in DOMAIN item THEN item["type"] ELSE ""]

ChainReturned == fn = "get_email_chain" /\ fpc \in {"format", "done"}

(* C20: get_email_chain returns the queried records sorted ascending by
   their timestamp string (records lacking a timestamp sort as the empty
   string, ties keep store order), one output record per input record, each
   projected to exactly the fields subject, body, sender, timestamp, type
   with every missing field set to the empty string. *)
C20_SortedProjectedChain ==
  ChainReturned =>
    /\ Len(chain) = Len(query_items)
    /\ \A i \in 1..Len(query_items) : chain[Place(i)] = Projected(query_items[i])
    /\ \A i \in 1..Len(chain) : DOMAIN chain[i] = Fields
    /\ \A i \in 1..(Len(chain) - 1) :
          ~StrLess(chain[i + 1].timestamp, chain[i].timestamp)

\* three items stored as '2', (no timestamp), '10', the last without a
\* subject: returned as (no timestamp), '10', '2'
C20_Witness ==
  /\ ChainReturned
  /\ Len(query_items) = 3
  /\ Key(query_items[1]) = <<2>>
  /\ "timestamp" \notin DOMAIN query_items[2]
  /\ Key(query_items[3]) = <<1, 0>> /\ "subject" \notin DOMAIN query_items[3]
  /\ chain[1].timestamp = << >>
  /\ chain[2].timestamp = <<1, 0>> /\ chain[2].subject = ""
  /\ chain[3].timestamp = <<2>>


(* C21: every rate-limit counter record that exists in the store carries a
   ttl, under every interleaving of concurrent get_and_increment_rate_limit
   calls and record expiry: when a record expires between a call's get_item
   and its update_item, the record recreated by the update still has a ttl,
   so no counter can persist without ever resetting. *)
C21_EveryCounterHasTtl ==
  \A c \in Cats, a \in Accounts :
     rl[c][a].present => rl[c][a].ttl # NoTtl


\* lambda_handler is running, or has answered, the current request
HandlerRequest == req.kind = "handler"

(* C22: lambda_handler is total over dictionary events: for every event it
   returns a response envelope whose statusCode is one of 200, 400, 404,
   422, 500 and never propagates an exception; a 400 response (missing
   body, invalid JSON, or missing conversationId) is returned before any
   store read or model call is made. *)
C22_HandlerTotal ==
  /\ (HandlerRequest /\ req.pc = "done") =>
        /\ out.status \in {200, 400, 404, 422, 500}
        /\ out.errorType \in {"", "MissingRequestBody", "InvalidJSON",
                              "MissingConversationId", "ConversationNotFound",
                              "LLMValidationError", "InternalServerError"}
        /\ (out.status = 200) = (out.errorType = "")
        /\ trace # << >> /\ trace[Len(trace)] = "respond"
        /\ (out.status = 400 =>
              /\ trace = <<"respond">>
              /\ invocations = req.before)
  /\ (HandlerRequest /\ req.pc # "done") =>
        /\ req.pc \in {"resolve", "fetch", "model"}
        /\ out = NoOut
        /\ "respond" \notin Steps

\* an event whose body is an object without conversationId was answered
\* with 400 before anything was read
C22_Witness ==
  /\ HandlerRequest /\ req.pc = "done"
  /\ out.status = 400
  /\ out.errorType = "MissingConversationId"
  /\ trace = <<"respond">>
  /\ nreq = 2


\* lambda_handler has answered a request whose account lookup gave nothing
\* and whose conversation has records that the query returned
NoAccountPath ==
  /\ HandlerRequest /\ req.pc = "done"
  /\ "resolve" \in Steps
  /\ ~Truthy(req.account_id)
  /\ ~req.fetch_fail
  /\ Len(ConversationsTable[req.conversation_id]) > 0

\* what an absent account id means for the records and the counters
NothingAccounted ==
  /\ "store" \notin Steps
  /\ ~RecordWritten
  /\ Steps \cap {"rate_AWS", "rate_AI"} = {}

(* C23, as stated: in lambda_handler an absent account id does not stop the
   pipeline: when account resolution returns nothing and the email chain is
   non-empty, the handler still calls the model and returns 200 with
   accountId null, and on that path no InvocationRecord is written and no
   rate-limit counter is touched. *)
C23_NoAccountStillReturns200 ==
  NoAccountPath =>
    /\ Count("post") = 1
    /\ out.status = 200
    /\ out.accountId = None
    /\ NothingAccounted

(* C23, amended: when account resolution returns nothing and the email
   chain is non-empty, the handler still calls the model, once, and answers
   as it would for a known account: 200 with accountId null and the parsed
   attributes when the model call succeeds, 422 or 500 when it fails; on
   that path no InvocationRecord write is attempted and no rate-limit
   counter is touched. *)
C23_NoAccountStillCallsModel ==
  NoAccountPath =>
    /\ Count("post") = 1
    /\ Count("fetch") = 1
    /\ NothingAccounted
    /\ IF req.raised = "None"
       THEN /\ out.status = 200
            /\ out.accountId = None
            /\ out.emailCount = Len(ConversationsTable[req.conversation_id])
            /\ out.attributes = Reference(split_lines(req.resp.choices[1]))
       ELSE /\ out.status = (IF req.raised = "ValueError" THEN 422 ELSE 500)
            /\ out.accountId = None

\* the thread of c3 is unknown, its one record was fetched, and the handler
\* answered 200 with a one-entry map and no account
C23_Witness ==
  /\ NoAccountPath
  /\ req.conversation_id = "c3"
  /\ out.status = 200
  /\ out.accountId = None
  /\ out.emailCount = 1
  /\ Cardinality(DOMAIN out.attributes) = 1
  /\ invocations = {}

====
